---- MODULE Spec2Model ----
(***************************************************************************)
(* Model of the two Blender utilities of this repository:                  *)
(*   crowdControl.py   - batch operations on the objects whose names begin *)
(*                       with a given root;                                *)
(*   shedScaleSkin.py  - the script that turns every face of an object     *)
(*                       into a displaced prism ("scale") object.          *)
(* The host (bpy) is modelled by the part of its scene state the scripts   *)
(* read and write: selection flags, locations, the active object, rigid    *)
(* bodies and material slots.                                              *)
(* Vectors are integer triples.  Vector.normalize() is computed exactly,   *)
(* as a numerator vector over an integer length; the inputs are drawn from *)
(* vectors whose length is an integer, so no rounding is modelled.         *)
(***************************************************************************)
EXTENDS Integers, Sequences, FiniteSets, TLC

VARIABLES
    sel,      \* crowdControl: object -> selection flag (select_get())
    loc,      \* crowdControl: object -> location
    active,   \* crowdControl: view_layer.objects.active (an object or NoObj)
    rb,       \* crowdControl: object -> "NONE" | "ACTIVE" | "PASSIVE"
    slots,    \* crowdControl: object -> sequence of materials (material_slots)
    amIdx,    \* crowdControl: object -> active_material_index
    err,      \* crowdControl: exception raised by the last call, "" if none
    xlog,     \* crowdControl: the transform.translate calls of the last call
    last,     \* crowdControl: the last call, with the scene before it
    prev,     \* crowdControl: the call before the last one
    steps,    \* crowdControl: number of calls made
    pc,       \* shedScaleSkin: position of the script
    orig,     \* shedScaleSkin: the original object o and its mesh oM
    orig0,    \* shedScaleSkin: the original object before the script ran
    scales,   \* shedScaleSkin: the scale objects sO created so far
    oBM,      \* shedScaleSkin: faces of the BMesh of the original, in world coordinates
    oLoc,     \* shedScaleSkin: oLoc
    faceNum,  \* shedScaleSkin: faceNum
    fi,       \* shedScaleSkin: index in oBM.faces of the face being processed
    vecOtoS,  \* shedScaleSkin: vecOtoS, a unit vector
    serr      \* shedScaleSkin: exception that ended the script, "" if none

cvars == <<sel, loc, active, rb, slots, amIdx, err, xlog, last, prev, steps>>

svars == <<pc, orig, orig0, scales, oBM, oLoc, faceNum, fi, vecOtoS, serr>>

vars == <<sel, loc, active, rb, slots, amIdx, err, xlog, last, prev, steps,
          pc, orig, orig0, scales, oBM, oLoc, faceNum, fi, vecOtoS, serr>>

----------------------------------------------------------------------------
(* Bounds *)

\* number of crowdControl calls made in one behaviour
MaxSteps == 2

----------------------------------------------------------------------------
(* Vectors (mathutils.Vector) *)

Zero3 == <<0, 0, 0>>

VAdd(a, b) == <<a[1] + b[1], a[2] + b[2], a[3] + b[3]>>

VSub(a, b) == <<a[1] - b[1], a[2] - b[2], a[3] - b[3]>>

VScale(k, a) == <<k * a[1], k * a[2], k * a[3]>>

\* squared length
Norm2(a) == a[1] * a[1] + a[2] * a[2] + a[3] * a[3]

ISqrt(n) == CHOOSE r \in 0..n : r * r <= n /\ n < (r + 1) * (r + 1)

IsSquare(n) == ISqrt(n) * ISqrt(n) = n

\* a plausible slip: vector.normalize() left out
NoNormalize(v) == [num |-> v, den |-> 1]

\* Vector.normalize(): the unit vector num/den; a zero vector is left as it is
Normalize(v) ==
    IF Norm2(v) = 0 THEN [num |-> Zero3, den |-> 1]
    ELSE [num |-> v, den |-> ISqrt(Norm2(v))]

\* unit vector * number
UnitTimes(u, k) ==
    <<(u.num[1] * k) \div u.den, (u.num[2] * k) \div u.den, (u.num[3] * k) \div u.den>>

\* the product above is exact
ExactTimes(v, k) ==
    /\ IsSquare(Norm2(v))
    /\ \A i \in 1..3 : (Normalize(v).num[i] * k) % Normalize(v).den = 0

----------------------------------------------------------------------------
(* The scene of crowdControl: bpy.data.objects, kept sorted by name *)

ObjNames == << <<"a">>, <<"a", "b">>, <<"b">> >>

Objs == 1..Len(ObjNames)

NoObj == 0

Materials == {"A", "B"}

\* str.startswith
StartsWith(name, nameRoot) ==
    /\ Len(nameRoot) <= Len(name)
    /\ SubSeq(name, 1, Len(nameRoot)) = nameRoot

\* a plausible slip: nameRoot in o.name
ContainsRoot(o, nameRoot) ==
    \E i \in 0..(Len(ObjNames[o]) - Len(nameRoot)) :
        SubSeq(ObjNames[o], i + 1, i + Len(nameRoot)) = nameRoot

Matches(o, nameRoot) == StartsWith(ObjNames[o], nameRoot)

RECURSIVE FilterObjs(_, _)
FilterObjs(i, nameRoot) ==
    IF i > Len(ObjNames) THEN <<>>
    ELSE (IF Matches(i, nameRoot) THEN <<i>> ELSE <<>>) \o FilterObjs(i + 1, nameRoot)

_getObjList(nameRoot) == FilterObjs(1, nameRoot)

Matched(nameRoot) == {_getObjList(nameRoot)[i] : i \in 1..Len(_getObjList(nameRoot))}

\* the scene as one value
Scene == [sel |-> sel, loc |-> loc, active |-> active, rb |-> rb,
          slots |-> slots, amIdx |-> amIdx, err |-> "", log |-> <<>>]

SelectedSet(st) == {o \in Objs : st.sel[o]}

----------------------------------------------------------------------------
(* Host operators *)

\* bpy.ops.object.select_all(action='DESELECT')
select_all_DESELECT(st) == [st EXCEPT !.sel = [o \in Objs |-> FALSE]]

\* o.select_set(flag)
select_set(st, o, flag) == [st EXCEPT !.sel[o] = flag]

\* a plausible slip: = instead of +=
TranslateSet(st, value) ==
    [st EXCEPT !.loc = [o \in Objs |-> IF st.sel[o] THEN value ELSE st.loc[o]],
               !.log = Append(st.log, [selected |-> SelectedSet(st), value |-> value])]

\* bpy.ops.transform.translate(value=...): moves the selected objects
Translate(st, value) ==
    [st EXCEPT !.loc = [o \in Objs |-> IF st.sel[o] THEN VAdd(st.loc[o], value)
                                                      ELSE st.loc[o]],
               !.log = Append(st.log, [selected |-> SelectedSet(st), value |-> value])]

----------------------------------------------------------------------------
(* crowdControl.py *)

RECURSIVE SelectLoop(_, _, _, _)
SelectLoop(st, all, i, flag) ==
    IF i > Len(all) THEN st
    ELSE SelectLoop(select_set(st, all[i], flag), all, i + 1, flag)

select_op(st, nameRoot) == SelectLoop(st, _getObjList(nameRoot), 1, TRUE)

deselect_op(st, nameRoot) == SelectLoop(st, _getObjList(nameRoot), 1, FALSE)

\* a plausible slip: the leading select_all(action='DESELECT') left out
MoveNoDeselect(st, nameRoot, vector) == Translate(select_op(st, nameRoot), vector)

move_op(st, nameRoot, vector) ==
    Translate(select_op(select_all_DESELECT(st), nameRoot), vector)


RECURSIVE MoveTowardsLoop(_, _, _, _, _)
MoveTowardsLoop(st, all, i, targetV, value) ==
    IF i > Len(all) THEN st
    ELSE LET o      == all[i]
             s1     == select_set(st, o, TRUE)
             vector == Normalize(VSub(targetV, s1.loc[o]))
             s2     == Translate(s1, UnitTimes(vector, value))
         IN  MoveTowardsLoop(select_set(s2, o, FALSE), all, i + 1, targetV, value)

\* a plausible slip: the leading select_all(action='DESELECT') left out
move_towards_no_deselect(st, nameRoot, target, value) ==
    MoveTowardsLoop(st, _getObjList(nameRoot), 1, target, value)

move_towards_op(st, nameRoot, target, value) ==
    MoveTowardsLoop(select_all_DESELECT(st), _getObjList(nameRoot), 1, target, value)

\* bpy.ops.rigidbody.object_add(type=...): acts on the active object
rigidbody_object_add(st, type) == [st EXCEPT !.rb[st.active] = type]

\* bpy.ops.rigidbody.object_remove(): its poll needs an active rigid body
rigidbody_object_remove(st) ==
    IF st.rb[st.active] = "NONE" THEN [st EXCEPT !.err = "RuntimeError"]
    ELSE [st EXCEPT !.rb[st.active] = "NONE"]

RECURSIVE EnableLoop(_, _, _, _)
EnableLoop(st, all, i, type) ==
    IF i > Len(all) THEN st
    ELSE EnableLoop(rigidbody_object_add([st EXCEPT !.active = all[i]], type),
                    all, i + 1, type)

\* a plausible slip: object_add() called without the type
enable_rigidbody_default(st, nameRoot, type) ==
    [EnableLoop(st, _getObjList(nameRoot), 1, "ACTIVE") EXCEPT !.active = NoObj]

enable_rigidbody_op(st, nameRoot, type) ==
    [EnableLoop(st, _getObjList(nameRoot), 1, type) EXCEPT !.active = NoObj]

RECURSIVE DisableLoop(_, _, _)
DisableLoop(st, all, i) ==
    IF i > Len(all) \/ st.err # "" THEN st
    ELSE DisableLoop(rigidbody_object_remove([st EXCEPT !.active = all[i]]), all, i + 1)

disable_rigidbody_op(st, nameRoot) ==
    LET s1 == DisableLoop(st, _getObjList(nameRoot), 1)
    IN  IF s1.err # "" THEN s1 ELSE [s1 EXCEPT !.active = NoObj]

\* bpy.ops.rigidbody.bake_to_keyframes: its poll needs an active rigid body; the
\* baked (selected) objects leave the simulation.  Keyframes are not modelled.
rigidbody_bake_to_keyframes(st) ==
    IF st.active = NoObj \/ st.rb[st.active] = "NONE"
    THEN [st EXCEPT !.err = "RuntimeError"]
    ELSE [st EXCEPT !.rb = [o \in Objs |-> IF st.sel[o] THEN "NONE" ELSE st.rb[o]]]

bake_rigidbody_op(st, nameRoot) ==
    rigidbody_bake_to_keyframes(select_op(select_all_DESELECT(st), nameRoot))

\* bpy.ops.rigidbody.object_settings_copy: from the active object to the selected
rigidbody_object_settings_copy(st) ==
    IF st.active = NoObj \/ st.rb[st.active] = "NONE"
    THEN [st EXCEPT !.err = "RuntimeError"]
    ELSE [st EXCEPT !.rb = [o \in Objs |-> IF st.sel[o] THEN st.rb[st.active]
                                                        ELSE st.rb[o]]]

\* template is an object of the scene (bpy.data.objects[template] finds it)
copy_rigidbody_settings_op(st, nameRoot, template) ==
    rigidbody_object_settings_copy(
        select_op([select_all_DESELECT(st) EXCEPT !.active = template], nameRoot))

RemoveAt(s, k) == SubSeq(s, 1, k - 1) \o SubSeq(s, k + 1, Len(s))

\* bpy.ops.object.material_slot_remove(): removes the active slot of the active
\* object; nothing to do on an object without slots
material_slot_remove(st) ==
    LET ob == st.active
        n  == Len(st.slots[ob])
    IN  IF n = 0 THEN st
        ELSE [st EXCEPT !.slots[ob] = RemoveAt(st.slots[ob], st.amIdx[ob] + 1),
                        !.amIdx[ob] = IF st.amIdx[ob] > n - 2
                                      THEN (IF n - 2 > 0 THEN n - 2 ELSE 0)
                                      ELSE st.amIdx[ob]]

RECURSIVE RemoveSlotsLoop(_, _, _)
RemoveSlotsLoop(st, co, totalSlots) ==
    IF totalSlots = 0 THEN st
    ELSE RemoveSlotsLoop(material_slot_remove([st EXCEPT !.amIdx[co] = 0]),
                         co, totalSlots - 1)

RECURSIVE AssignLoop(_, _, _, _, _)
AssignLoop(st, all, i, co, m) ==
    IF i > Len(all) THEN st
    ELSE LET o  == all[i]
             s1 == [st EXCEPT !.active = o]
         IN  IF co = NoObj THEN [s1 EXCEPT !.err = "AttributeError"]
             ELSE LET s2 == RemoveSlotsLoop(s1, co, Len(s1.slots[co]))
                  IN  AssignLoop([s2 EXCEPT !.slots[o] = Append(s2.slots[o], m)],
                                 all, i + 1, co, m)

\* material names an existing material
assign_material_op(st, nameRoot, material) ==
    LET s1 == AssignLoop(st, _getObjList(nameRoot), 1, st.active, material)
    IN  IF s1.err # "" THEN s1 ELSE [s1 EXCEPT !.active = NoObj]

----------------------------------------------------------------------------
(* Calls of crowdControl, with their inputs *)

NameRoots == {<<>>, <<"a">>, <<"b">>, <<"b", "a">>}

MoveVectors == {<<1, 0, 0>>, <<-3, 0, 4>>}

Targets == {<<0, 0, 0>>, <<3, 4, 0>>}

Values == {5, -5, 10}

\* objects named as the template of copy_rigidbody_settings
Templates == {1, 2}

RBTypes == {"ACTIVE", "PASSIVE"}

Loc0 == <<Zero3, <<3, 4, 0>>, <<0, 0, 2>>>>

NoCall == [op |-> "none", nameRoot |-> <<>>, arg |-> <<>>, pre |-> <<>>]

\* one more call may be made; the host runs one script at a time, so no call is
\* made while shedScaleSkin runs
CanCall == steps < MaxSteps /\ pc = "idle"

\* the scene after a call, and the record of the call
Returned(opname, nameRoot, arg, st) ==
    /\ sel' = st.sel
    /\ loc' = st.loc
    /\ active' = st.active
    /\ rb' = st.rb
    /\ slots' = st.slots
    /\ amIdx' = st.amIdx
    /\ err' = st.err
    /\ xlog' = st.log
    /\ last' = [op |-> opname, nameRoot |-> nameRoot, arg |-> arg, pre |-> Scene]
    /\ prev' = last
    /\ steps' = steps + 1
    /\ UNCHANGED svars

select ==
    /\ CanCall
    /\ \E nameRoot \in NameRoots :
        Returned("select", nameRoot, <<>>, select_op(Scene, nameRoot))

deselect ==
    /\ CanCall
    /\ \E nameRoot \in NameRoots :
        Returned("deselect", nameRoot, <<>>, deselect_op(Scene, nameRoot))

move ==
    /\ CanCall
    /\ \E nameRoot \in NameRoots, vector \in MoveVectors :
        Returned("move", nameRoot, vector, move_op(Scene, nameRoot, vector))

move_towards ==
    /\ CanCall
    /\ \E nameRoot \in NameRoots, target \in Targets, value \in Values :
        /\ \A o \in Matched(nameRoot) : ExactTimes(VSub(target, loc[o]), value)
        /\ Returned("move_towards", nameRoot, [target |-> target, value |-> value],
                    move_towards_op(Scene, nameRoot, target, value))

enable_rigidbody ==
    /\ CanCall
    /\ \E nameRoot \in NameRoots, type \in RBTypes :
        Returned("enable_rigidbody", nameRoot, type,
                 enable_rigidbody_op(Scene, nameRoot, type))

disable_rigidbody ==
    /\ CanCall
    /\ \E nameRoot \in NameRoots :
        Returned("disable_rigidbody", nameRoot, <<>>,
                 disable_rigidbody_op(Scene, nameRoot))

bake_rigidbody ==
    /\ CanCall
    /\ \E nameRoot \in NameRoots :
        Returned("bake_rigidbody", nameRoot, <<>>, bake_rigidbody_op(Scene, nameRoot))

copy_rigidbody_settings ==
    /\ CanCall
    /\ \E nameRoot \in NameRoots, template \in Templates :
        Returned("copy_rigidbody_settings", nameRoot, template,
                 copy_rigidbody_settings_op(Scene, nameRoot, template))

assign_material ==
    /\ CanCall
    /\ \E nameRoot \in NameRoots, material \in Materials :
        Returned("assign_material", nameRoot, material,
                 assign_material_op(Scene, nameRoot, material))

----------------------------------------------------------------------------
(* Initial scenes *)

NoSlots == [o \in Objs |-> <<>>]

NoRB == [o \in Objs |-> "NONE"]

\* the script is not run
ScriptIdle ==
    /\ pc = "idle"
    /\ orig = <<>>
    /\ orig0 = <<>>
    /\ scales = <<>>
    /\ oBM = <<>>
    /\ oLoc = Zero3
    /\ faceNum = 0
    /\ fi = 0
    /\ vecOtoS = Normalize(Zero3)
    /\ serr = ""

InitCalls ==
    /\ ScriptIdle
    /\ err = ""
    /\ xlog = <<>>
    /\ last = NoCall
    /\ prev = NoCall
    /\ steps = 0

\* any selection
InitSel ==
    /\ sel \in [Objs -> BOOLEAN]
    /\ loc = Loc0
    /\ active = NoObj
    /\ rb = NoRB
    /\ slots = NoSlots
    /\ amIdx = [o \in Objs |-> 0]
    /\ InitCalls

\* any selection, with or without rigid bodies and an active object
InitMove ==
    /\ sel \in [Objs -> BOOLEAN]
    /\ loc = Loc0
    /\ \/ active = NoObj /\ rb = NoRB
       \/ active = 1 /\ rb = <<"ACTIVE", "NONE", "PASSIVE">>
    /\ slots = NoSlots
    /\ amIdx = [o \in Objs |-> 0]
    /\ InitCalls

\* any rigid bodies, any active object
InitRB ==
    /\ sel = [o \in Objs |-> FALSE]
    /\ loc = Loc0
    /\ active \in Objs \cup {NoObj}
    /\ rb \in [Objs -> {"NONE", "ACTIVE", "PASSIVE"}]
    /\ slots = NoSlots
    /\ amIdx = [o \in Objs |-> 0]
    /\ InitCalls

SlotLists == {<<>>, <<"A">>, <<"A", "B">>}

\* any active object, up to two slots on each object, any active slot
InitMat ==
    /\ sel = [o \in Objs |-> FALSE]
    /\ loc = Loc0
    /\ active \in Objs \cup {NoObj}
    /\ rb = NoRB
    /\ slots \in [Objs -> SlotLists]
    /\ amIdx \in [Objs -> 0..1]
    /\ \A o \in Objs : amIdx[o] = 0 \/ amIdx[o] < Len(slots[o])
    /\ InitCalls

NextSel == select \/ deselect

SpecSel == InitSel /\ [][NextSel]_vars

NextMove == move \/ move_towards \/ bake_rigidbody \/ copy_rigidbody_settings

SpecMove == InitMove /\ [][NextMove]_vars

NextRB == enable_rigidbody \/ disable_rigidbody

SpecRB == InitRB /\ [][NextRB]_vars

NextMat == assign_material

SpecMat == InitMat /\ [][NextMat]_vars

----------------------------------------------------------------------------
(* Properties of crowdControl *)

\* the objects whose names begin with nameRoot, by definition
Begins(nameRoot) == {o \in Objs : StartsWith(ObjNames[o], nameRoot)}

\* squared distance
Dist2(a, b) == Norm2(VSub(a, b))

\* C1: after select(p) every object whose name starts with p is selected, after
\* deselect(p) every such object is deselected, and the flag of every other
\* object is the one it had before the call.
C1_SelectExactlyPrefix ==
    last.op \in {"select", "deselect"} =>
        \A o \in Objs :
            IF o \in Begins(last.nameRoot)
            THEN sel[o] = (last.op = "select")
            ELSE sel[o] = last.pre.sel[o]

\* a deselect of root "b" after a select of it, "b" unselected and "ab"
\* selected at first
C1_Witness ==
    /\ prev.op = "select" /\ last.op = "deselect"
    /\ prev.nameRoot = <<"b">> /\ last.nameRoot = <<"b">>
    /\ ~prev.pre.sel[3] /\ prev.pre.sel[2] /\ last.pre.sel[3]
    /\ sel[2] /\ ~sel[3]

\* C2 as claimed: after move_towards(p, target, value) every matched object is
\* strictly closer to target when value > 0 and strictly farther when value < 0.
C2_AlwaysCloser ==
    last.op = "move_towards" =>
        \A o \in Begins(last.nameRoot) :
            /\ last.arg.value > 0 =>
                   Dist2(loc[o], last.arg.target) < Dist2(last.pre.loc[o], last.arg.target)
            /\ last.arg.value < 0 =>
                   Dist2(loc[o], last.arg.target) > Dist2(last.pre.loc[o], last.arg.target)

\* C2 amended: a matched object that starts at distance d > 0 from target ends
\* at distance |d - value| from it (strictly closer exactly when
\* 0 < value < 2d, strictly farther when value < 0 or value > 2d); a matched
\* object that starts at target is not moved.
C2_DistanceAfter ==
    last.op = "move_towards" =>
        \A o \in Begins(last.nameRoot) :
            LET d2    == Dist2(last.pre.loc[o], last.arg.target)
                d     == ISqrt(d2)
                n2    == Dist2(loc[o], last.arg.target)
                value == last.arg.value
            IN  /\ d2 = 0 => loc[o] = last.pre.loc[o]
                /\ d2 > 0 => n2 = (d - value) * (d - value)
                /\ (d2 > 0 /\ 0 < value /\ value < 2 * d) => n2 < d2
                /\ (d2 > 0 /\ value < 0) => n2 > d2
                /\ (d2 > 0 /\ value >= 2 * d) => n2 >= d2

\* move_towards with root "a": "a" starts at the target and stays, "ab" starts
\* 5 away and arrives
C2_Witness ==
    /\ last.op = "move_towards" /\ last.nameRoot = <<"a">>
    /\ last.arg.target = Zero3 /\ last.arg.value = 5
    /\ last.pre.loc[1] = Zero3 /\ last.pre.loc[2] = <<3, 4, 0>>
    /\ loc[1] = Zero3 /\ loc[2] = Zero3

\* C3 as claimed: after assign_material(p, m) every object whose name starts
\* with p has exactly one material slot, holding m.
C3_OneSlot ==
    (last.op = "assign_material" /\ err = "") =>
        \A o \in Begins(last.nameRoot) : slots[o] = <<last.arg>>

\* C5: move(p, v1) and then move(p, v2) leave the locations and the selection
\* that one move(p, v1 + v2) from the same scene leaves.
C5_MoveAdds ==
    (prev.op = "move" /\ last.op = "move" /\ prev.nameRoot = last.nameRoot) =>
        LET once == move_op(prev.pre, last.nameRoot, VAdd(prev.arg, last.arg))
        IN  loc = once.loc /\ sel = once.sel

\* two moves of root "a" by different vectors, "b" selected at first
C5_Witness ==
    /\ prev.op = "move" /\ last.op = "move"
    /\ prev.nameRoot = <<"a">> /\ last.nameRoot = <<"a">>
    /\ prev.arg # last.arg
    /\ prev.pre.sel[3]
    /\ loc[1] = <<-2, 0, 4>>

C9_OnlyMatchedMoved ==
    /\ last.op \in {"move", "move_towards"} =>
           \A o \in Objs \ Begins(last.nameRoot) : loc[o] = last.pre.loc[o]
    /\ last.op = "move_towards" =>
           /\ Cardinality({xlog[i].selected : i \in 1..Len(xlog)}) = Len(xlog)
           /\ {xlog[i].selected : i \in 1..Len(xlog)} =
                  {{o} : o \in Begins(last.nameRoot)}
           /\ \A i \in 1..Len(xlog) : \A o \in xlog[i].selected :
                  /\ xlog[i].value =
                         UnitTimes(Normalize(VSub(last.arg.target, last.pre.loc[o])),
                                   last.arg.value)
                  /\ loc[o] = VAdd(last.pre.loc[o], xlog[i].value)

\* move_towards of root "a" with "b" selected before: two translate calls
C9_Witness ==
    /\ last.op = "move_towards" /\ last.nameRoot = <<"a">>
    /\ last.pre.sel[3]
    /\ Len(xlog) = 2 /\ xlog[1].value # xlog[2].value
    /\ loc[2] # last.pre.loc[2]

\* C10: after enable_rigidbody(p, type) every object whose name starts with p
\* has a rigid body of that type, the others are as before, and no object is
\* active; after a following disable_rigidbody(p) the matched objects have no
\* rigid body, the others are still as before, and no object is active.
C10_EnableDisable ==
    /\ last.op = "enable_rigidbody" =>
           /\ \A o \in Objs :
                  rb[o] = IF o \in Begins(last.nameRoot) THEN last.arg
                          ELSE last.pre.rb[o]
           /\ active = NoObj
           /\ err = ""
    /\ (prev.op = "enable_rigidbody" /\ last.op = "disable_rigidbody"
        /\ prev.nameRoot = last.nameRoot) =>
           /\ \A o \in Objs :
                  rb[o] = IF o \in Begins(last.nameRoot) THEN "NONE"
                          ELSE prev.pre.rb[o]
           /\ active = NoObj
           /\ err = ""

\* enable of root "a" as PASSIVE, then disable, with "b" a rigid body and active
C10_Witness ==
    /\ prev.op = "enable_rigidbody" /\ last.op = "disable_rigidbody"
    /\ prev.nameRoot = <<"a">> /\ last.nameRoot = <<"a">>
    /\ prev.arg = "PASSIVE"
    /\ prev.pre.active = 3 /\ prev.pre.rb[3] = "ACTIVE" /\ prev.pre.rb[1] = "ACTIVE"
    /\ rb = <<"NONE", "NONE", "ACTIVE">>

----------------------------------------------------------------------------
(* shedScaleSkin.py.  Lengths are in units of 1/40 of a Blender unit, so that *)
(* half of SCALE_THICKNESS is a whole number.                                 *)

originalObjectName == "Cube"

\* one Blender unit, in the model's units of length
BU == 2 * 20

\* 0.05
SCALE_THICKNESS == BU \div 20

\* 1
DISPLACEMENT_DISTANCE == 1 * BU

\* bpy.data.materials, which the host keeps sorted by name
DataMaterials == <<"A", "B">>

RECURSIVE VSum(_, _)
VSum(vs, i) == IF i > Len(vs) THEN Zero3 ELSE VAdd(vs[i], VSum(vs, i + 1))

VDiv(a, n) == <<a[1] \div n, a[2] \div n, a[3] \div n>>

\* BMFace.calc_center_median(), and the median of a mesh's vertices
Median(vs) == VDiv(VSum(vs, 1), Len(vs))

\* the uv layer of a mesh with n loops
UVFor(n) == [i \in 1..n |-> <<i % 2, (i \div 2) % 2>>]

Quad(a, b, c, d, mi) == [vidx |-> <<a, b, c, d>>, material_index |-> mi]

\* a plane: one quad around the object's origin
PlaneMesh ==
    [verts |-> << <<-40, -40, 0>>, <<40, -40, 0>>, <<40, 40, 0>>, <<-40, 40, 0>> >>,
     faces |-> << Quad(1, 2, 3, 4, 0) >>,
     uv    |-> UVFor(4)]

\* two faces of a cube
CornerMesh ==
    [verts |-> << <<40, 40, 40>>, <<40, -40, 40>>, <<40, -40, -40>>, <<40, 40, -40>>,
                  <<-40, 40, 40>>, <<-40, -40, 40>> >>,
     faces |-> << Quad(1, 2, 3, 4, 0), Quad(1, 5, 6, 2, 1) >>,
     uv    |-> UVFor(8)]

\* a triangle, then a quad
TriQuadMesh ==
    [verts |-> << <<-30, -30, 40>>, <<60, -30, 40>>, <<-30, 60, 40>>,
                  <<40, 40, 40>>, <<40, -40, 40>>, <<40, -40, -40>>, <<40, 40, -40>> >>,
     faces |-> << [vidx |-> <<1, 2, 3>>, material_index |-> 0], Quad(4, 5, 6, 7, 0) >>,
     uv    |-> UVFor(7)]

\* two triangles
TriTriMesh ==
    [verts |-> << <<-30, -30, 40>>, <<60, -30, 40>>, <<-30, 60, 40>>,
                  <<-30, -30, -40>>, <<-30, 60, -40>>, <<60, -30, -40>> >>,
     faces |-> << [vidx |-> <<1, 2, 3>>, material_index |-> 0],
                  [vidx |-> <<4, 5, 6>>, material_index |-> 0] >>,
     uv    |-> UVFor(6)]

\* a pentagon
PentMesh ==
    [verts |-> << <<40, 0, 40>>, <<10, 40, 40>>, <<-30, 20, 40>>, <<-30, -20, 40>>,
                  <<10, -40, 40>> >>,
     faces |-> << [vidx |-> <<1, 2, 3, 4, 5>>, material_index |-> 0] >>,
     uv    |-> UVFor(5)]

Meshes == {PlaneMesh, CornerMesh, TriQuadMesh, TriTriMesh, PentMesh}

\* the objects of the scene: the original and the scales
World == [orig |-> orig, scales |-> scales]

\* the vertices of an object in world coordinates (matrix_world: scale k, then loc)
WorldVerts(ob) == [i \in 1..Len(ob.verts) |-> VAdd(VScale(ob.k, ob.verts[i]), ob.loc)]

\* bpy.ops.object.select_all(action='DESELECT')
scene_select_all_DESELECT(w) ==
    [orig   |-> [w.orig EXCEPT !.sel = FALSE],
     scales |-> [i \in 1..Len(w.scales) |-> [w.scales[i] EXCEPT !.sel = FALSE]]]

\* origin to geometry: the origin goes to the median of the vertices, which stay
OriginToGeometry(ob) ==
    LET c == Median(WorldVerts(ob))
    IN  [ob EXCEPT !.loc = c,
                   !.verts = [i \in 1..Len(ob.verts) |->
                                 VDiv(VSub(WorldVerts(ob)[i], c), ob.k)]]

\* bpy.ops.object.origin_set(type='ORIGIN_GEOMETRY'): on the selected objects
origin_set(w) ==
    [orig   |-> IF w.orig.sel THEN OriginToGeometry(w.orig) ELSE w.orig,
     scales |-> [i \in 1..Len(w.scales) |->
                    IF w.scales[i].sel THEN OriginToGeometry(w.scales[i])
                    ELSE w.scales[i]]]

\* bpy.ops.transform.translate(value=...): on the selected objects
scene_translate(w, value) ==
    [orig   |-> IF w.orig.sel THEN [w.orig EXCEPT !.loc = VAdd(@, value)] ELSE w.orig,
     scales |-> [i \in 1..Len(w.scales) |->
                    IF w.scales[i].sel THEN [w.scales[i] EXCEPT !.loc = VAdd(@, value)]
                    ELSE w.scales[i]]]

\* index of the first loop of face f of a mesh (loops are numbered face by face)
RECURSIVE LoopStart(_, _)
LoopStart(faces, f) ==
    IF f = 1 THEN 0 ELSE LoopStart(faces, f - 1) + Len(faces[f - 1].vidx)

\* oBM.from_mesh(oM), then bmesh.ops.transform(oBM, matrix=o.matrix_world, ...)
BMeshOf(o) ==
    [f \in 1..Len(o.faces) |->
        [verts          |-> [j \in 1..Len(o.faces[f].vidx) |->
                                WorldVerts(o)[o.faces[f].vidx[j]]],
         material_index |-> o.faces[f].material_index,
         loops          |-> [j \in 1..Len(o.faces[f].vidx) |->
                                LoopStart(o.faces, f) + j - 1]]]

\* the faces of sBM after extrude_face_region, by their numbers of loops: the
\* face itself, its extruded copy, and one quad for each of its edges
ScaleFaces(n) == <<n, n>> \o [i \in 1..n |-> 4]

\* the vertices of sBM: the face's, and the extruded ones moved by vec
PrismVerts(face, vec) ==
    face.verts \o [j \in 1..Len(face.verts) |-> VAdd(face.verts[j], vec)]

NoUV == <<>>

\* sFace.loops[loopIndex % 4][uvLayer].uv = faceUV, for every face of sBM
RECURSIVE CopyUV(_, _, _, _)
CopyUV(uvs, loops, j, uvdata) ==
    IF j > Len(loops) THEN [ok |-> TRUE, uv |-> uvs]
    ELSE LET loopIndex == loops[j]
             faceUV    == uvdata[loopIndex + 1]
             at        == loopIndex % 4
         IN  IF \E f \in 1..Len(uvs) : at >= Len(uvs[f])
             THEN [ok |-> FALSE, uv |-> uvs]
             ELSE CopyUV([f \in 1..Len(uvs) |-> [uvs[f] EXCEPT ![at + 1] = faceUV]],
                         loops, j + 1, uvdata)

\* the uv layer of sBM before the copy: nothing set
BlankUV(n) == [f \in 1..Len(ScaleFaces(n)) |-> [l \in 1..ScaleFaces(n)[f] |-> NoUV]]

\* a plausible slip: the selection is not cleared before the scale is selected
LoopKeepSelection(w) == w

\* line 79
LoopDeselect(w) == scene_select_all_DESELECT(w)

----------------------------------------------------------------------------
(* The script, step by step *)

\* lines 30-43
Setup ==
    /\ pc = "start"
    /\ LET w == scene_select_all_DESELECT(World)
           o == [w.orig EXCEPT !.sel = TRUE]
       IN  /\ orig' = o
           /\ scales' = w.scales
           /\ oBM' = BMeshOf(o)
           /\ oLoc' = o.loc
    /\ faceNum' = 0
    /\ fi' = 1
    /\ pc' = "face"
    /\ UNCHANGED <<orig0, vecOtoS, serr>>
    /\ UNCHANGED cvars

\* lines 47-76: the scale's mesh is built and its object linked to the scene
BuildScale ==
    /\ pc = "face"
    /\ fi <= Len(oBM)
    /\ LET face  == oBM[fi]
           n     == Len(face.verts)
           vec   == Normalize(VSub(Median(face.verts), oLoc))
           verts == PrismVerts(face, UnitTimes(vec, SCALE_THICKNESS))
           uv    == CopyUV(BlankUV(n), face.loops, 1, orig.uv)
           sO    == [name      |-> <<"scale", originalObjectName, faceNum>>,
                     loc       |-> Zero3,
                     k         |-> 1,
                     sel       |-> FALSE,
                     verts     |-> verts,
                     uv        |-> uv.uv,
                     materials |-> <<>>]
       IN  /\ vecOtoS' = vec
           /\ IF uv.ok
              THEN /\ scales' = Append(scales, sO)
                   /\ faceNum' = faceNum + 1
                   /\ pc' = "select"
                   /\ serr' = serr
              ELSE /\ pc' = "error"
                   /\ serr' = "IndexError"
                   /\ UNCHANGED <<scales, faceNum>>
    /\ UNCHANGED <<orig, orig0, oBM, oLoc, fi>>
    /\ UNCHANGED cvars

\* lines 79-80
SelectScale ==
    /\ pc = "select"
    /\ LET w == LoopDeselect(World)
       IN  /\ orig' = w.orig
           /\ scales' = [w.scales EXCEPT ![Len(scales)].sel = TRUE]
    /\ pc' = "move"
    /\ UNCHANGED <<orig0, oBM, oLoc, faceNum, fi, vecOtoS, serr>>
    /\ UNCHANGED cvars

\* lines 81-82
MoveScale ==
    /\ pc = "move"
    /\ LET w == scene_translate(origin_set(World),
                                UnitTimes(vecOtoS, DISPLACEMENT_DISTANCE))
       IN  /\ orig' = w.orig
           /\ scales' = w.scales
    /\ pc' = "material"
    /\ UNCHANGED <<orig0, oBM, oLoc, faceNum, fi, vecOtoS, serr>>
    /\ UNCHANGED cvars

\* line 85, and the next face
ApplyMaterial ==
    /\ pc = "material"
    /\ LET mi == oBM[fi].material_index
       IN  IF mi < Len(DataMaterials)
           THEN /\ scales' = [scales EXCEPT ![Len(scales)].materials =
                                  Append(@, DataMaterials[mi + 1])]
                /\ fi' = fi + 1
                /\ pc' = "face"
                /\ serr' = serr
           ELSE /\ pc' = "error"
                /\ serr' = "IndexError"
                /\ UNCHANGED <<scales, fi>>
    /\ UNCHANGED <<orig, orig0, oBM, oLoc, faceNum, vecOtoS>>
    /\ UNCHANGED cvars

\* lines 88-89
CleanUp ==
    /\ pc = "face"
    /\ fi > Len(oBM)
    /\ LET w == scene_select_all_DESELECT(World)
       IN  /\ orig' = w.orig
           /\ scales' = w.scales
    /\ oBM' = <<>>
    /\ pc' = "done"
    /\ UNCHANGED <<orig0, oLoc, faceNum, fi, vecOtoS, serr>>
    /\ UNCHANGED cvars

SlotChoices == {<<"A", "B">>, <<"B", "A">>, <<"B">>}

\* the original object: any of the meshes, at the world origin or off it,
\* unscaled or scaled by 2, selected or not, its faces' materials in its slots
InitScale ==
    /\ pc = "start"
    /\ \E m \in Meshes, l \in {Zero3, <<40, 0, 0>>}, k \in {1, 2}, s \in BOOLEAN,
          sl \in SlotChoices :
          /\ \A f \in 1..Len(m.faces) : m.faces[f].material_index < Len(sl)
          /\ orig = [name |-> originalObjectName, loc |-> l, k |-> k, sel |-> s,
                     verts |-> m.verts, faces |-> m.faces, uv |-> m.uv, slots |-> sl]
    /\ orig0 = orig
    /\ scales = <<>>
    /\ oBM = <<>>
    /\ oLoc = Zero3
    /\ faceNum = 0
    /\ fi = 0
    /\ vecOtoS = Normalize(Zero3)
    /\ serr = ""
    /\ sel = [o \in Objs |-> FALSE]
    /\ loc = Loc0
    /\ active = NoObj
    /\ rb = NoRB
    /\ slots = NoSlots
    /\ amIdx = [o \in Objs |-> 0]
    /\ err = ""
    /\ xlog = <<>>
    /\ last = NoCall
    /\ prev = NoCall
    /\ steps = 0

NextScale == Setup \/ BuildScale \/ SelectScale \/ MoveScale \/ ApplyMaterial \/ CleanUp

SpecScale == InitScale /\ [][NextScale]_vars

----------------------------------------------------------------------------
(* Properties of shedScaleSkin *)

\* the number of vertices of the face a scale was made from
SourceVerts(sO) == Len(sO.verts) \div 2

AllQuads == \A f \in 1..Len(orig0.faces) : Len(orig0.faces[f].vidx) = 4

\* where the scale made from face f lies before it is moved: the median of its
\* prism, built on the face as the original object had it
PrismCentre(f) ==
    LET face == BMeshOf(orig0)[f]
        vec  == Normalize(VSub(Median(face.verts), orig0.loc))
    IN  Median(PrismVerts(face, UnitTimes(vec, SCALE_THICKNESS)))

\* C4 as claimed: for a mesh of quads the script makes one object per face,
\* named "scale" + originalObjectName + k, each moved by a nonzero vector away
\* from the original's origin, each with the material in the original's slot
\* face.material_index.
C4_OneScalePerFace ==
    (pc = "done" /\ AllQuads) =>
        /\ Len(scales) = Len(orig0.faces)
        /\ \A i \in 1..Len(scales) :
               /\ scales[i].name = <<"scale", originalObjectName, i - 1>>
               /\ scales[i].loc # PrismCentre(i)
               /\ Dist2(scales[i].loc, orig0.loc) > Dist2(PrismCentre(i), orig0.loc)
               /\ scales[i].materials =
                      <<orig0.slots[orig0.faces[i].material_index + 1]>>

\* C7: the script leaves the original object's location, scale, vertices,
\* faces, uv data and material slots as they were, and the original object is
\* not selected when origin_set and transform.translate are called in the loop.
C7_OriginalUnaltered ==
    /\ pc # "idle" =>
           /\ orig.loc = orig0.loc
           /\ orig.k = orig0.k
           /\ orig.verts = orig0.verts
           /\ orig.faces = orig0.faces
           /\ orig.uv = orig0.uv
           /\ orig.slots = orig0.slots
    /\ pc = "move" => (~orig.sel /\ {i \in 1..Len(scales) : scales[i].sel} = {Len(scales)})

\* the script has finished on a scaled original lying off the world origin,
\* selected at first, and has made and moved two scales
C7_Witness ==
    /\ pc = "done"
    /\ orig0.sel /\ orig0.k = 2 /\ orig0.loc # Zero3
    /\ Len(scales) = 2
    /\ \A i \in 1..2 : scales[i].loc # PrismCentre(i)

\* C8 as claimed: a face that is not a quadrilateral ends the script in an
\* error and gives no scale object.
C8_NonQuadRaises ==
    \A i \in 1..Len(scales) : SourceVerts(scales[i]) = 4

----------------------------------------------------------------------------
(* Everything together *)

Init == InitMove \/ InitScale

Next == NextSel \/ NextMove \/ NextRB \/ NextMat \/ NextScale

Spec == Init /\ [][Next]_vars

====
